---- MODULE Spec2Model ----
(***************************************************************************)
(* Request construction and dispatch core of the omise-go client           *)
(* (client.go): the two constructors, the three request builders, the      *)
(* credential selection of setRequestHeaders and the three dispatch        *)
(* methods Do, DoWithFormData and DoUploadDocument.                        *)
(*                                                                         *)
(* Go strings are sequences of tokens, so that concatenation (endpoint +   *)
(* path, the User-Agent suffix) and prefix tests are computed, not assumed.*)
(* A response body is a sequence of JSON tokens; a token is a sequence of  *)
(* strings: <<"{">>, <<"}">> or a member <<key, value>>.                   *)
(***************************************************************************)
EXTENDS Integers, Sequences, FiniteSets, TLC

\* Number of call sites that may use the one Client concurrently.
NumCallers == 2
Callers == 1..NumCallers

\* The single success status (resp.StatusCode != 200).
StatusOK == 200

Empty == <<>>

HasPrefix(s, prefix) == Len(s) >= 1 /\ s[1] = prefix

(***************************************************************************)
(* internal/endpoint.go: an Endpoint is a string; the identifier is its    *)
(* own default literal.                                                    *)
(***************************************************************************)
API == <<"https://api.omise.co">>
APIStaging == <<"https://api.staging-omise.co">>
Vault == <<"https://vault.omise.co">>
EndpointIds == {API, APIStaging, Vault}

(***************************************************************************)
(* Operations.  Describe() gives Endpoint, Method, Path and ContentType;   *)
(* the three flags say whether json.Marshal, the schema encoder and the    *)
(* decoding of the marshalled JSON into the upload document succeed for    *)
(* the operation's field values.                                           *)
(***************************************************************************)
UploadDocument ==
    [name |-> "UploadDocument", Endpoint |-> APIStaging, Method |-> "POST",
     Path |-> <<"/documents">>, ContentType |-> Empty,
     jsonOK |-> TRUE, formOK |-> TRUE, docOK |-> TRUE]

CreateOnboard ==
    [name |-> "CreateOnboard", Endpoint |-> APIStaging, Method |-> "POST",
     Path |-> <<"/onboard">>, ContentType |-> <<"multipart/form-data">>,
     jsonOK |-> TRUE, formOK |-> TRUE, docOK |-> TRUE]

ListSchedules ==
    [name |-> "ListSchedules", Endpoint |-> API, Method |-> "GET",
     Path |-> <<"/transfers/schedules">>, ContentType |-> <<"application/json">>,
     jsonOK |-> TRUE, formOK |-> TRUE, docOK |-> TRUE]

\* An operation of the catalogue that targets the Vault endpoint.
VaultOperation ==
    [name |-> "VaultOperation", Endpoint |-> Vault, Method |-> "POST",
     Path |-> <<"/tokens">>, ContentType |-> <<"application/json">>,
     jsonOK |-> TRUE, formOK |-> TRUE, docOK |-> TRUE]

\* An operation holding a value neither json.Marshal nor the schema encoder
\* can serialize.
UnserializableOperation ==
    [name |-> "UnserializableOperation", Endpoint |-> API, Method |-> "POST",
     Path |-> <<"/charges">>, ContentType |-> <<"application/json">>,
     jsonOK |-> FALSE, formOK |-> FALSE, docOK |-> FALSE]

\* An operation whose JSON form marshals but does not decode into the upload
\* document (its Kind is not a string).
NotADocumentOperation ==
    [name |-> "NotADocumentOperation", Endpoint |-> API, Method |-> "POST",
     Path |-> <<"/charges">>, ContentType |-> Empty,
     jsonOK |-> TRUE, formOK |-> TRUE, docOK |-> FALSE]

Operations ==
    {UploadDocument, CreateOnboard, ListSchedules, VaultOperation,
     UnserializableOperation, NotADocumentOperation}

Describe(operation) ==
    [Endpoint |-> operation.Endpoint, Method |-> operation.Method,
     Path |-> operation.Path, ContentType |-> operation.ContentType]

(***************************************************************************)
(* Error values.  type is the Go type (or origin) of the error.            *)
(***************************************************************************)
NilErr ==
    [type |-> "nil", StatusCode |-> 0, Code |-> "", Message |-> "",
     buffer |-> Empty, msg |-> Empty]

ErrOf(type) == [NilErr EXCEPT !.type = type]

ErrInvalidKey == ErrOf("ErrInvalidKey")

ErrInternal(msg) == [NilErr EXCEPT !.type = "ErrInternal", !.msg = msg]

ErrTransport(buf) == [NilErr EXCEPT !.type = "ErrTransport", !.buffer = buf]

(***************************************************************************)
(* Requests.                                                               *)
(***************************************************************************)
HeaderNames == {"Content-Type", "User-Agent", "Omise-Version"}

NoHeader == [n \in HeaderNames |-> Empty]

\* http.Header.Add appends a value to the values of the name.
HeaderAdd(h, name, value) == [h EXCEPT ![name] = Append(@, value)]

NoAuth == Empty

\* Request.SetBasicAuth: the Authorization value carries user and password.
BasicAuth(user, password) == <<<<"Basic">>, user, password>>

NilRequest ==
    [Method |-> "", URL |-> Empty, Header |-> NoHeader, auth |-> NoAuth,
     body |-> "none"]

BadURL == <<"http://[::1">>

\* http.NewRequest fails on a method that is no token and on a URL that does
\* not parse.
NewRequest(method, url, body) ==
    IF method \notin {"GET", "POST", "PATCH", "DELETE"} \/ HasPrefix(url, BadURL[1])
    THEN [err |-> ErrOf("newrequest"), req |-> NilRequest]
    ELSE [err |-> NilErr,
          req |-> [Method |-> method, URL |-> url, Header |-> NoHeader,
                   auth |-> NoAuth, body |-> body]]

\* writer.FormDataContentType(): the boundary-bearing multipart content type.
FormDataContentType == <<"multipart/form-data", "; boundary=", "b0">>

VARIABLES
    keyKinds,   \* the key kind each endpoint requires (Description.KeyKind)
    phase,      \* "new", "configuring" (constructed, no call yet), "serving"
    client,     \* the Client's fields
    newErr,     \* the error the last constructor call returned
    active,     \* the callers that issue dispatch calls
    pc,         \* per caller: "idle", "sending", "reading", "done"
    call,       \* per caller: the dispatch call in progress
    req,        \* per caller: the request built
    resp,       \* per caller: the response received
    buffer,     \* per caller: the bytes ioutil.ReadAll returned
    ret,        \* per caller: the error the dispatch call returned
    dest,       \* per caller: the caller's destination (result)
    sends       \* per caller: round trips made by the call in progress

vars ==
    <<keyKinds, phase, client, newErr, active, pc, call, req, resp, buffer,
      ret, dest, sends>>


(***************************************************************************)
(* Inputs.  With a single caller the inputs range over the full sets; with *)
(* several concurrent callers they range over the smaller sets, which      *)
(* keeps the interleavings enumerable.                                     *)
(***************************************************************************)
SingleCaller == Cardinality(active) = 1

PKey == <<"pkey_", "test_1">>
SKey == <<"skey_", "test_1">>
CKey == <<"ckey_", "test_1">>
\* A key with none of the expected prefixes.
BadKey == <<"key_", "test_1">>

LocalURL == <<"http://localhost:8080">>
OverrideURLs == IF SingleCaller THEN {LocalURL, BadURL} ELSE {LocalURL}

APIVersions == {<<"2019-05-29">>}

OperationsIn ==
    IF SingleCaller THEN Operations ELSE {ListSchedules, UnserializableOperation}

\* result: TRUE when the caller supplies a destination, FALSE for nil.
ResultsIn == IF SingleCaller THEN BOOLEAN ELSE {TRUE}

\* Response bodies.
ErrorBody ==
    <<<<"{">>, <<"object", "error">>, <<"code", "invalid_card">>,
      <<"message", "bad">>, <<"}">>>>
ObjectBody == <<<<"{">>, <<"object", "charge">>, <<"id", "chrg_1">>, <<"}">>>>
\* Valid JSON whose id is a number where the destination has a string.
MistypedBody == <<<<"{">>, <<"object", "charge">>, <<"id", "#number">>, <<"}">>>>
GarbageBody == <<<<"<html>">>>>
Bodies == {ErrorBody, ObjectBody, MistypedBody, GarbageBody}

Statuses == {StatusOK, 402}

\* What c.Client.Do and the reading of the body can produce: a transport
\* failure, a response whose body reads fully, a response whose body fails
\* while being read.
TransportFailure ==
    [fail |-> TRUE, StatusCode |-> 0, Body |-> Empty, readErr |-> FALSE]

Responses ==
    {TransportFailure}
    \cup [fail : {FALSE}, StatusCode : Statuses, Body : Bodies, readErr : {FALSE}]
    \cup [fail : {FALSE}, StatusCode : Statuses, Body : {ErrorBody}, readErr : {TRUE}]

ResponsesIn ==
    IF SingleCaller THEN Responses
    ELSE {TransportFailure,
          [fail |-> FALSE, StatusCode |-> StatusOK, Body |-> ObjectBody, readErr |-> FALSE],
          [fail |-> FALSE, StatusCode |-> 402, Body |-> ErrorBody, readErr |-> FALSE]}

(***************************************************************************)
(* Description.KeyKind: derived from the Endpoint by a table.  API         *)
(* requires the secret class; the classes of Vault and APIStaging are      *)
(* taken over every table the description allows.                          *)
(***************************************************************************)
KeyKindTables ==
    {t \in [EndpointIds -> {"public", "secret", "unknown"}] :
        t[API] = "secret" /\ t[Vault] \in {"public", "secret"}}

KeyKind(desc) == keyKinds[desc.Endpoint]

(***************************************************************************)
(* The Client.                                                             *)
(***************************************************************************)
\* build.Default.ReleaseTags of the toolchain.
ReleaseTags == <<"go1.1", "go1.2">>

ZeroClient ==
    [debug |-> FALSE, pkey |-> Empty, skey |-> Empty, ckey |-> Empty,
     Endpoints |-> <<>>, APIVersion |-> Empty, GoVersion |-> Empty]

WithGoVersion(c) ==
    IF Len(ReleaseTags) > 0
    THEN [c EXCEPT !.GoVersion = <<ReleaseTags[Len(ReleaseTags)]>>]
    ELSE c

NewClient(pkey, skey) ==
    /\ phase = "new"
    /\ IF \/ pkey = Empty /\ skey = Empty
          \/ pkey # Empty /\ ~HasPrefix(pkey, "pkey_")
          \/ skey # Empty /\ ~HasPrefix(skey, "skey_")
       THEN /\ newErr' = ErrInvalidKey
            /\ UNCHANGED <<client, phase>>
       ELSE /\ client' = WithGoVersion([ZeroClient EXCEPT !.pkey = pkey, !.skey = skey])
            /\ newErr' = NilErr
            /\ phase' = "configuring"
    /\ UNCHANGED <<keyKinds, active, pc, call, req, resp, buffer, ret, dest, sends>>

NewClientWithChainKey(ckey) ==
    /\ phase = "new"
    /\ IF \/ ckey = Empty
          \/ ckey # Empty /\ ~HasPrefix(ckey, "ckey_")
       THEN /\ newErr' = ErrInvalidKey
            /\ UNCHANGED <<client, phase>>
       ELSE /\ client' = WithGoVersion([ZeroClient EXCEPT !.ckey = ckey])
            /\ newErr' = NilErr
            /\ phase' = "configuring"
    /\ UNCHANGED <<keyKinds, active, pc, call, req, resp, buffer, ret, dest, sends>>

\* The owner of the Client registers an override: c.Endpoints[ep] = url.
SetEndpoint(ep, url) ==
    /\ phase = "configuring"
    /\ client' = [client EXCEPT !.Endpoints = (ep :> url) @@ @]
    /\ UNCHANGED <<keyKinds, phase, newErr, active, pc, call, req, resp, buffer,
                   ret, dest, sends>>

\* The owner of the Client sets c.APIVersion.
SetAPIVersion(version) ==
    /\ phase = "configuring"
    /\ client' = [client EXCEPT !.APIVersion = version]
    /\ UNCHANGED <<keyKinds, phase, newErr, active, pc, call, req, resp, buffer,
                   ret, dest, sends>>

(***************************************************************************)
(* Request builders.                                                       *)
(***************************************************************************)
\* endpoint := string(desc.Endpoint); if ep, ok := c.Endpoints[...]; ok {...}
ResolveEndpoint(c, desc) ==
    IF desc.Endpoint \in DOMAIN c.Endpoints
    THEN c.Endpoints[desc.Endpoint]
    ELSE desc.Endpoint

\* Mutant: the error of json.Marshal is dropped and the request is built.
buildJSONRequest_ignoreMarshalError(c, operation) ==
    LET desc == Describe(operation) IN
    NewRequest(desc.Method, ResolveEndpoint(c, desc) \o desc.Path, "json")

buildJSONRequest(c, operation) ==
    LET desc == Describe(operation) IN
    IF ~operation.jsonOK
    THEN [err |-> ErrOf("marshal"), req |-> NilRequest]
    ELSE NewRequest(desc.Method, ResolveEndpoint(c, desc) \o desc.Path, "json")

\* Mutant: the Endpoints overrides are not consulted.
buildFormDataRequest_noOverride(c, operation) ==
    LET desc == Describe(operation) IN
    IF ~operation.formOK
    THEN [err |-> ErrOf("encode"), req |-> NilRequest]
    ELSE NewRequest(desc.Method, desc.Endpoint \o desc.Path, "form")

buildFormDataRequest(c, operation) ==
    LET desc == Describe(operation) IN
    IF ~operation.formOK
    THEN [err |-> ErrOf("encode"), req |-> NilRequest]
    ELSE NewRequest(desc.Method, ResolveEndpoint(c, desc) \o desc.Path, "form")

\* The writes of the multipart writer go to a bytes.Buffer and do not fail.
buildUploadDocumentRequest(c, operation) ==
    LET desc == Describe(operation)
        r == NewRequest(desc.Method, ResolveEndpoint(c, desc) \o desc.Path, "multipart")
    IN
    IF ~operation.jsonOK
    THEN [err |-> ErrOf("marshal"), req |-> NilRequest]
    ELSE IF ~operation.docOK
    THEN [err |-> ErrOf("unmarshal"), req |-> NilRequest]
    ELSE IF r.err # NilErr
    THEN r
    ELSE [err |-> NilErr,
          req |-> [r.req EXCEPT
                     !.Header = HeaderAdd(@, "Content-Type", FormDataContentType)]]

\* The Content-Type, User-Agent and Omise-Version headers of
\* setRequestHeaders.
StandardHeaders(c, r, desc) ==
    LET ua == <<"OmiseGo/2015-11-06">>
              \o (IF c.GoVersion # Empty THEN <<" Go/">> \o c.GoVersion ELSE Empty)
        h1 == IF desc.ContentType # Empty
              THEN HeaderAdd(r.Header, "Content-Type", desc.ContentType)
              ELSE r.Header
        h2 == HeaderAdd(h1, "User-Agent", ua)
        h3 == IF c.APIVersion # Empty
              THEN HeaderAdd(h2, "Omise-Version", c.APIVersion)
              ELSE h2
    IN [r EXCEPT !.Header = h3]

WithAuth(r, key) == [err |-> NilErr, req |-> [r EXCEPT !.auth = BasicAuth(key, Empty)]]

\* Mutant: the secret case does not fall back to the chain key.
setRequestHeaders_noChainKey(c, r, desc) ==
    LET rh == StandardHeaders(c, r, desc) IN
    CASE KeyKind(desc) = "public" -> WithAuth(rh, c.pkey)
      [] KeyKind(desc) = "secret" ->
           IF c.skey # Empty
           THEN WithAuth(rh, c.skey)
           ELSE [err |-> ErrInternal(<<"either secret key or chain key must not be empty">>),
                 req |-> rh]
      [] OTHER ->
           [err |-> ErrInternal(<<"unrecognized endpoint:">> \o desc.Endpoint),
            req |-> rh]

\* Mutant: the public case falls back to the secret-class keys when the
\* publishable key is empty.
setRequestHeaders_publicFallback(c, r, desc) ==
    LET rh == StandardHeaders(c, r, desc) IN
    CASE KeyKind(desc) = "public" ->
           IF c.pkey # Empty
           THEN WithAuth(rh, c.pkey)
           ELSE IF c.skey # Empty
           THEN WithAuth(rh, c.skey)
           ELSE WithAuth(rh, c.ckey)
      [] KeyKind(desc) = "secret" ->
           IF c.skey # Empty
           THEN WithAuth(rh, c.skey)
           ELSE IF c.ckey # Empty
           THEN WithAuth(rh, c.ckey)
           ELSE [err |-> ErrInternal(<<"either secret key or chain key must not be empty">>),
                 req |-> rh]
      [] OTHER ->
           [err |-> ErrInternal(<<"unrecognized endpoint:">> \o desc.Endpoint),
            req |-> rh]

setRequestHeaders(c, r, desc) ==
    LET rh == StandardHeaders(c, r, desc) IN
    CASE KeyKind(desc) = "public" -> WithAuth(rh, c.pkey)
      [] KeyKind(desc) = "secret" ->
           IF c.skey # Empty
           THEN WithAuth(rh, c.skey)
           ELSE IF c.ckey # Empty
           THEN WithAuth(rh, c.ckey)
           ELSE [err |-> ErrInternal(<<"either secret key or chain key must not be empty">>),
                 req |-> rh]
      [] OTHER ->
           [err |-> ErrInternal(<<"unrecognized endpoint:">> \o desc.Endpoint),
            req |-> rh]

\* Shared shape of Request, FormDataRequest and UploadDocumentRequest: the
\* builder's error, else the error of setRequestHeaders, else the request.
WithHeaders(c, built, operation) ==
    IF built.err # NilErr
    THEN [err |-> built.err, req |-> NilRequest]
    ELSE LET h == setRequestHeaders(c, built.req, Describe(operation)) IN
         IF h.err # NilErr
         THEN [err |-> h.err, req |-> NilRequest]
         ELSE h

Request(c, operation) == WithHeaders(c, buildJSONRequest(c, operation), operation)

FormDataRequest(c, operation) ==
    WithHeaders(c, buildFormDataRequest(c, operation), operation)

UploadDocumentRequest(c, operation) ==
    WithHeaders(c, buildUploadDocumentRequest(c, operation), operation)


(***************************************************************************)
(* Decoding of a response body (encoding/json on the token form).          *)
(***************************************************************************)
JSONValid(buf) ==
    /\ Len(buf) >= 2
    /\ buf[1] = <<"{">>
    /\ buf[Len(buf)] = <<"}">>
    /\ \A i \in 2..(Len(buf) - 1) : Len(buf[i]) = 2

Members(buf) == SubSeq(buf, 2, Len(buf) - 1)

HasMember(buf, key) == \E i \in 2..(Len(buf) - 1) : buf[i][1] = key

Member(buf, key) == buf[CHOOSE i \in 2..(Len(buf) - 1) : buf[i][1] = key][2]

\* json.Unmarshal(buffer, err) for err *Error: the body's code and message
\* are stored; the status code is the one the HTTP layer supplied.
UnmarshalError(buf, e) ==
    IF ~JSONValid(buf)
    THEN [ok |-> FALSE, val |-> e]
    ELSE [ok |-> TRUE,
          val |-> [e EXCEPT
                     !.Code = IF HasMember(buf, "code") THEN Member(buf, "code") ELSE @,
                     !.Message = IF HasMember(buf, "message")
                                 THEN Member(buf, "message") ELSE @]]

\* The destination has the string fields object and id.
WellTyped(member) == member[2] # "#number"

\* json.Unmarshal(buffer, result): a body that is no JSON leaves the
\* destination untouched; a mistyped member is skipped, the others are
\* stored, and the type error is returned.
UnmarshalResult(buf, result) ==
    IF ~JSONValid(buf)
    THEN [ok |-> FALSE, val |-> result]
    ELSE [ok |-> \A i \in 1..Len(Members(buf)) : WellTyped(Members(buf)[i]),
          val |-> [result EXCEPT !.fields = SelectSeq(Members(buf), WellTyped)]]

\* Mutant: the Error is created without the status of the response.
decode_noStatusCode(status, buf, result) ==
    IF status # StatusOK
    THEN LET e == UnmarshalError(buf, ErrOf("Error")) IN
         IF ~e.ok
         THEN [err |-> ErrTransport(buf), dest |-> result]
         ELSE [err |-> e.val, dest |-> result]
    ELSE IF result.supplied
    THEN LET u == UnmarshalResult(buf, result) IN
         IF ~u.ok
         THEN [err |-> ErrTransport(buf), dest |-> u.val]
         ELSE [err |-> NilErr, dest |-> u.val]
    ELSE [err |-> NilErr, dest |-> result]

\* Mutant: the error of decoding into the destination is dropped.
decode_ignoreResultError(status, buf, result) ==
    IF status # StatusOK
    THEN LET e == UnmarshalError(buf, [ErrOf("Error") EXCEPT !.StatusCode = status]) IN
         IF ~e.ok
         THEN [err |-> ErrTransport(buf), dest |-> result]
         ELSE [err |-> e.val, dest |-> result]
    ELSE IF result.supplied
    THEN [err |-> NilErr, dest |-> UnmarshalResult(buf, result).val]
    ELSE [err |-> NilErr, dest |-> result]

\* The status switch and the decoding that end Do, DoWithFormData and
\* DoUploadDocument, once the body is read into buf.
decode(status, buf, result) ==
    IF status # StatusOK
    THEN LET e == UnmarshalError(buf, [ErrOf("Error") EXCEPT !.StatusCode = status]) IN
         IF ~e.ok
         THEN [err |-> ErrTransport(buf), dest |-> result]
         ELSE [err |-> e.val, dest |-> result]
    ELSE IF result.supplied
    THEN LET u == UnmarshalResult(buf, result) IN
         IF ~u.ok
         THEN [err |-> ErrTransport(buf), dest |-> u.val]
         ELSE [err |-> NilErr, dest |-> u.val]
    ELSE [err |-> NilErr, dest |-> result]

(***************************************************************************)
(* Dispatch.                                                               *)
(***************************************************************************)
NilOperation ==
    [name |-> "nil", Endpoint |-> Empty, Method |-> "", Path |-> Empty,
     ContentType |-> Empty, jsonOK |-> FALSE, formOK |-> FALSE, docOK |-> FALSE]

NoCall == [mode |-> "none", operation |-> NilOperation, result |-> FALSE]

NoResponse == [fail |-> FALSE, StatusCode |-> 0, Body |-> Empty, readErr |-> FALSE]

NoDest == [supplied |-> FALSE, fields |-> Empty]

\* Entry of a dispatch call: the request is built; an error of the build is
\* returned at once, else the call goes on to the round trip.
Begin(p, mode, result, operation, r) ==
    /\ p \in active
    /\ phase # "new"
    /\ pc[p] = "idle"
    /\ phase' = "serving"
    /\ call' = [call EXCEPT ![p] = [mode |-> mode, operation |-> operation,
                                    result |-> result]]
    /\ dest' = [dest EXCEPT ![p] = [supplied |-> result, fields |-> Empty]]
    /\ IF r.err # NilErr
       THEN /\ ret' = [ret EXCEPT ![p] = r.err]
            /\ pc' = [pc EXCEPT ![p] = "done"]
            /\ UNCHANGED req
       ELSE /\ req' = [req EXCEPT ![p] = r.req]
            /\ pc' = [pc EXCEPT ![p] = "sending"]
            /\ UNCHANGED ret
    /\ UNCHANGED <<keyKinds, newErr, active, resp, buffer, sends>>

Do(p, result, operation) ==
    /\ Begin(p, "json", result, operation, Request(client, operation))
    /\ UNCHANGED client

\* Mutant: the call stores the endpoint it resolved in the Client's Endpoints.
DoWithFormData_cacheEndpoint(p, result, operation) ==
    /\ Begin(p, "form", result, operation, FormDataRequest(client, operation))
    /\ client' = [client EXCEPT
                    !.Endpoints = (operation.Endpoint :>
                                     ResolveEndpoint(client, Describe(operation))) @@ @]

DoWithFormData(p, result, operation) ==
    /\ Begin(p, "form", result, operation, FormDataRequest(client, operation))
    /\ UNCHANGED client

DoUploadDocument(p, result, operation) ==
    /\ Begin(p, "multipart", result, operation, UploadDocumentRequest(client, operation))
    /\ UNCHANGED client

\* Mutant: a failed round trip is tried once more before the error is returned.
ClientDo_retry(p) ==
    /\ pc[p] = "sending"
    /\ \E r \in ResponsesIn :
          /\ sends' = [sends EXCEPT ![p] = @ + 1]
          /\ IF r.fail
             THEN /\ ret' = [ret EXCEPT ![p] = ErrOf("net")]
                  /\ pc' = [pc EXCEPT ![p] = IF sends[p] = 0 THEN "sending" ELSE "done"]
                  /\ UNCHANGED resp
             ELSE /\ resp' = [resp EXCEPT ![p] = r]
                  /\ pc' = [pc EXCEPT ![p] = "reading"]
                  /\ UNCHANGED ret
    /\ UNCHANGED <<keyKinds, phase, client, newErr, active, call, req, buffer, dest>>

\* Mutant: the error of the round trip is dropped and the call returns nil.
ClientDo_dropError(p) ==
    /\ pc[p] = "sending"
    /\ \E r \in ResponsesIn :
          /\ sends' = [sends EXCEPT ![p] = @ + 1]
          /\ IF r.fail
             THEN /\ pc' = [pc EXCEPT ![p] = "done"]
                  /\ UNCHANGED <<resp, ret>>
             ELSE /\ resp' = [resp EXCEPT ![p] = r]
                  /\ pc' = [pc EXCEPT ![p] = "reading"]
                  /\ UNCHANGED ret
    /\ UNCHANGED <<keyKinds, phase, client, newErr, active, call, req, buffer, dest>>

\* resp, err := c.Client.Do(req): the one round trip; a transport failure is
\* returned as it is.
ClientDo(p) ==
    /\ pc[p] = "sending"
    /\ \E r \in ResponsesIn :
          /\ sends' = [sends EXCEPT ![p] = @ + 1]
          /\ IF r.fail
             THEN /\ ret' = [ret EXCEPT ![p] = ErrOf("net")]
                  /\ pc' = [pc EXCEPT ![p] = "done"]
                  /\ UNCHANGED resp
             ELSE /\ resp' = [resp EXCEPT ![p] = r]
                  /\ pc' = [pc EXCEPT ![p] = "reading"]
                  /\ UNCHANGED ret
    /\ UNCHANGED <<keyKinds, phase, client, newErr, active, call, req, buffer, dest>>

\* buffer, err := ioutil.ReadAll(resp.Body), then the status switch and the
\* decoding.  A failed read returns what was read before the failure.
ReadBody(p) ==
    /\ pc[p] = "reading"
    /\ IF resp[p].readErr
       THEN LET read == SubSeq(resp[p].Body, 1, 1) IN
            /\ buffer' = [buffer EXCEPT ![p] = read]
            /\ ret' = [ret EXCEPT ![p] = ErrTransport(read)]
            /\ UNCHANGED dest
       ELSE LET d == decode(resp[p].StatusCode, resp[p].Body, dest[p]) IN
            /\ buffer' = [buffer EXCEPT ![p] = resp[p].Body]
            /\ ret' = [ret EXCEPT ![p] = d.err]
            /\ dest' = [dest EXCEPT ![p] = d.dest]
    /\ pc' = [pc EXCEPT ![p] = "done"]
    /\ UNCHANGED <<keyKinds, phase, client, newErr, active, call, req, resp, sends>>

\* The call has returned; the caller is free to issue the next one.
Return(p) ==
    /\ pc[p] = "done"
    /\ pc' = [pc EXCEPT ![p] = "idle"]
    /\ call' = [call EXCEPT ![p] = NoCall]
    /\ req' = [req EXCEPT ![p] = NilRequest]
    /\ resp' = [resp EXCEPT ![p] = NoResponse]
    /\ buffer' = [buffer EXCEPT ![p] = Empty]
    /\ ret' = [ret EXCEPT ![p] = NilErr]
    /\ dest' = [dest EXCEPT ![p] = NoDest]
    /\ sends' = [sends EXCEPT ![p] = 0]
    /\ UNCHANGED <<keyKinds, phase, client, newErr, active>>

InitCommon ==
    /\ phase = "new"
    /\ client = ZeroClient
    /\ newErr = NilErr
    /\ pc = [p \in Callers |-> "idle"]
    /\ call = [p \in Callers |-> NoCall]
    /\ req = [p \in Callers |-> NilRequest]
    /\ resp = [p \in Callers |-> NoResponse]
    /\ buffer = [p \in Callers |-> Empty]
    /\ ret = [p \in Callers |-> NilErr]
    /\ dest = [p \in Callers |-> NoDest]
    /\ sends = [p \in Callers |-> 0]

\* One call site.
Init ==
    /\ active = {1}
    /\ keyKinds \in KeyKindTables
    /\ InitCommon

\* Every call site uses the Client concurrently.
InitConcurrent ==
    /\ active = Callers
    /\ keyKinds = [e \in EndpointIds |-> "secret"]
    /\ InitCommon

Next ==
    \/ \E pkey \in {Empty, PKey, BadKey}, skey \in {Empty, SKey, BadKey} :
          NewClient(pkey, skey)
    \/ \E ckey \in {Empty, CKey, BadKey} : NewClientWithChainKey(ckey)
    \/ \E ep \in EndpointIds, url \in OverrideURLs : SetEndpoint(ep, url)
    \/ \E version \in APIVersions : SetAPIVersion(version)
    \/ \E p \in Callers, result \in ResultsIn, operation \in OperationsIn :
          Do(p, result, operation)
    \/ \E p \in Callers, result \in ResultsIn, operation \in OperationsIn :
          DoWithFormData(p, result, operation)
    \/ \E p \in Callers, result \in ResultsIn, operation \in OperationsIn :
          DoUploadDocument(p, result, operation)
    \/ \E p \in Callers : ClientDo(p)
    \/ \E p \in Callers : ReadBody(p)
    \/ \E p \in Callers : Return(p)

Spec == Init /\ [][Next]_vars

SpecConcurrent == InitConcurrent /\ [][Next]_vars


(***************************************************************************)
(* Properties.                                                             *)
(***************************************************************************)
CallOp(p) == call[p].operation

CallKind(p) == KeyKind(Describe(CallOp(p)))

\* The call of p has a built request.
Built(p) == pc[p] # "idle" /\ req[p] # NilRequest

\* The call of p received a response from the transport.
Received(p) == pc[p] \in {"reading", "done"} /\ resp[p] # NoResponse

\* The operation's fields serialize in the mode.
Serializable(operation, mode) ==
    CASE mode = "json" -> operation.jsonOK
      [] mode = "form" -> operation.formOK
      [] mode = "multipart" -> operation.jsonOK /\ operation.docOK
      [] OTHER -> FALSE

\* The override registered for the operation's endpoint, if any, parses.
OverrideParses(operation) ==
    operation.Endpoint \in DOMAIN client.Endpoints
        => client.Endpoints[operation.Endpoint] # BadURL

BuildErrorTypes == {"marshal", "encode", "unmarshal", "newrequest"}

\* C1: for an operation of key kind secret, in each of the three modes, a
\* built request carries the secret key when it is non-empty and else the
\* chain key, and with either key the request is built whenever the builder
\* succeeds; with both keys empty the call has returned without any send,
\* with the configuration error whenever the builder itself succeeded.
C1_SecretCredential ==
    \A p \in Callers :
        (pc[p] # "idle" /\ CallKind(p) = "secret") =>
            /\ Built(p) =>
                  /\ client.skey # Empty => req[p].auth = BasicAuth(client.skey, Empty)
                  /\ client.skey = Empty =>
                        /\ client.ckey # Empty
                        /\ req[p].auth = BasicAuth(client.ckey, Empty)
            /\ (/\ client.skey # Empty \/ client.ckey # Empty
                /\ Serializable(CallOp(p), call[p].mode)
                /\ OverrideParses(CallOp(p))) => Built(p)
            /\ (client.skey = Empty /\ client.ckey = Empty) =>
                  /\ pc[p] = "done"
                  /\ sends[p] = 0
                  /\ req[p] = NilRequest
                  /\ ret[p].type \in {"ErrInternal"} \cup BuildErrorTypes
                  /\ (Serializable(CallOp(p), call[p].mode) /\ OverrideParses(CallOp(p)))
                        => ret[p].type = "ErrInternal"

\* A chain-key-only client has sent a secret-kind upload with the chain key.
C1_Witness ==
    \E p \in Callers :
        /\ pc[p] # "idle"
        /\ CallKind(p) = "secret"
        /\ call[p].mode = "multipart"
        /\ client.skey = Empty
        /\ client.ckey = CKey
        /\ sends[p] = 1
        /\ req[p].auth = BasicAuth(CKey, Empty)

\* C2: for an operation of key kind public the credential of a built request
\* is the publishable key whatever keys are configured, the call never fails
\* with a configuration error, and with an empty publishable key the request
\* is still built (its credential empty) whenever the builder succeeds.
C2_PublicCredential ==
    \A p \in Callers :
        (pc[p] # "idle" /\ CallKind(p) = "public") =>
            /\ Built(p) => req[p].auth = BasicAuth(client.pkey, Empty)
            /\ ret[p].type # "ErrInternal"
            /\ (Serializable(CallOp(p), call[p].mode) /\ OverrideParses(CallOp(p)))
                  => Built(p)
            /\ pc[p] = "done" /\ Built(p) => sends[p] = 1

\* A client holding only a chain key has sent a public-kind request with an
\* empty credential.
C2_Witness ==
    \E p \in Callers :
        /\ pc[p] # "idle"
        /\ CallKind(p) = "public"
        /\ client.pkey = Empty
        /\ client.ckey = CKey
        /\ sends[p] = 1
        /\ req[p].auth = BasicAuth(Empty, Empty)

\* The outcomes of a returned call: the error value returned, together with
\* how far the call went.
Outcome(kind, p) ==
    CASE kind = "success" ->
           /\ ret[p].type = "nil"
           /\ sends[p] = 1
           /\ Received(p)
           /\ resp[p].StatusCode = StatusOK
      [] kind = "provider" ->
           /\ ret[p].type = "Error"
           /\ sends[p] = 1
           /\ Received(p)
           /\ resp[p].StatusCode # StatusOK
      [] kind = "transport" ->
           /\ ret[p].type \in {"net", "ErrTransport"}
           /\ sends[p] = 1
      [] kind = "build" ->
           /\ ret[p].type \in BuildErrorTypes
           /\ sends[p] = 0
      [] kind = "configuration" ->
           /\ ret[p].type = "ErrInternal"
           /\ sends[p] = 0
      [] OTHER -> FALSE

ExactlyOne(kinds, p) == Cardinality({k \in kinds : Outcome(k, p)}) = 1

\* C3 as stated: every returned dispatch call ends in exactly one of build
\* error, transport error, provider error, success.
C3_FourOutcomes ==
    \A p \in Callers :
        pc[p] = "done" =>
            ExactlyOne({"build", "transport", "provider", "success"}, p)

\* C3 amended: every returned dispatch call ends in exactly one of
\* configuration error, build error, transport error, provider error, success.
C3_FiveOutcomes ==
    \A p \in Callers :
        pc[p] = "done" =>
            ExactlyOne({"configuration", "build", "transport", "provider", "success"}, p)

\* A call returned the configuration error of a secret-kind operation on a
\* client with neither secret nor chain key.
C3_Witness ==
    \E p \in Callers :
        /\ pc[p] = "done"
        /\ Outcome("configuration", p)
        /\ CallKind(p) = "secret"

\* C4: a returned call whose response has a status other than 200 is never a
\* success; when the body read is a JSON object the call returns an Error
\* with the status of the response and the body's code and message; when it
\* is not, the call returns an ErrTransport holding the bytes of the body.
C4_Non200 ==
    \A p \in Callers :
        (pc[p] = "done" /\ Received(p) /\ resp[p].StatusCode # StatusOK) =>
            /\ ret[p].type # "nil"
            /\ (~resp[p].readErr /\ JSONValid(resp[p].Body)) =>
                  /\ ret[p].type = "Error"
                  /\ ret[p].StatusCode = resp[p].StatusCode
                  /\ ret[p].Code = (IF HasMember(resp[p].Body, "code")
                                    THEN Member(resp[p].Body, "code") ELSE "")
                  /\ ret[p].Message = (IF HasMember(resp[p].Body, "message")
                                       THEN Member(resp[p].Body, "message") ELSE "")
            /\ (~resp[p].readErr /\ ~JSONValid(resp[p].Body)) =>
                  ret[p] = ErrTransport(resp[p].Body)

\* A 402 response with the error body returned a provider error 402
\* invalid_card.
C4_Witness ==
    \E p \in Callers :
        /\ pc[p] = "done"
        /\ resp[p].StatusCode = 402
        /\ resp[p].Body = ErrorBody
        /\ ret[p].type = "Error"
        /\ ret[p].StatusCode = 402
        /\ ret[p].Code = "invalid_card"
        /\ ret[p].Message = "bad"

\* The body does not decode into the destination: it is no JSON object, or a
\* member has the wrong type.
Undecodable(body) ==
    \/ ~JSONValid(body)
    \/ \E i \in 1..Len(body) : Len(body[i]) = 2 /\ body[i][2] = "#number"

\* C5: a returned call whose response has status 200 and a fully read body
\* that does not decode into the destination the caller supplied returns an
\* ErrTransport holding the bytes of the body, never nil.
C5_UndecodableSuccess ==
    \A p \in Callers :
        (/\ pc[p] = "done"
         /\ Received(p)
         /\ resp[p].StatusCode = StatusOK
         /\ ~resp[p].readErr
         /\ call[p].result
         /\ Undecodable(resp[p].Body)) =>
            ret[p] = ErrTransport(resp[p].Body)

\* A 200 response with a mistyped member returned the transport error, the
\* destination being partially filled.
C5_Witness ==
    \E p \in Callers :
        /\ pc[p] = "done"
        /\ resp[p].StatusCode = StatusOK
        /\ resp[p].Body = MistypedBody
        /\ call[p].result
        /\ dest[p].fields # Empty
        /\ ret[p] = ErrTransport(MistypedBody)

\* C6: a call whose operation does not serialize in its mode has returned
\* the builder's error, holds no request and has made no send: there is no
\* send at any point of the call.
C6_BuildErrorBeforeIO ==
    \A p \in Callers :
        (pc[p] # "idle" /\ ~Serializable(CallOp(p), call[p].mode)) =>
            /\ pc[p] = "done"
            /\ ret[p].type \in {"marshal", "encode", "unmarshal"}
            /\ req[p] = NilRequest
            /\ sends[p] = 0

\* An upload whose JSON form is no document returned the error of the
\* intermediate decoding.
C6_Witness ==
    \E p \in Callers :
        /\ pc[p] = "done"
        /\ call[p].mode = "multipart"
        /\ CallOp(p) = NotADocumentOperation
        /\ ret[p].type = "unmarshal"
        /\ sends[p] = 0

\* C7: in each mode the URL of a built request is the override registered
\* for the operation's endpoint followed by the path when there is one, and
\* the endpoint's default literal followed by the path otherwise.
C7_TargetURL ==
    \A p \in Callers :
        Built(p) =>
            LET ep == CallOp(p).Endpoint IN
            /\ ep \in DOMAIN client.Endpoints =>
                  req[p].URL = client.Endpoints[ep] \o CallOp(p).Path
            /\ ep \notin DOMAIN client.Endpoints =>
                  req[p].URL = ep \o CallOp(p).Path

\* With an override registered for another endpoint only, a form request
\* targets the default literal of its own endpoint.
C7_Witness ==
    \E p \in Callers :
        /\ Built(p)
        /\ call[p].mode = "form"
        /\ CallOp(p).Endpoint = API
        /\ DOMAIN client.Endpoints = {APIStaging}
        /\ req[p].URL = API \o CallOp(p).Path

\* C8: a call makes at most one round trip; a call that returned nil or a
\* provider error made exactly one and read the whole body; a transport
\* failure of the round trip is returned after that single send; only an
\* error of the request construction is returned without a send.
C8_OneRoundTrip ==
    \A p \in Callers :
        /\ sends[p] <= 1
        /\ pc[p] = "sending" => sends[p] = 0
        /\ pc[p] = "reading" => sends[p] = 1
        /\ pc[p] = "done" =>
              /\ ret[p].type \in {"nil", "Error"} =>
                    sends[p] = 1 /\ Received(p) /\ buffer[p] = resp[p].Body
              /\ ret[p].type = "net" => sends[p] = 1 /\ ~Received(p)
              /\ sends[p] = 0 => ret[p].type \in {"ErrInternal"} \cup BuildErrorTypes

\* A transport failure was returned after one send.
C8_Witness ==
    \E p \in Callers :
        /\ pc[p] = "done"
        /\ ret[p].type = "net"
        /\ sends[p] = 1

\* The request of the call of p, built from the Client c alone.
RequestAlone(c, p) ==
    CASE call[p].mode = "json" -> Request(c, CallOp(p))
      [] call[p].mode = "form" -> FormDataRequest(c, CallOp(p))
      [] OTHER -> UploadDocumentRequest(c, CallOp(p))

\* The returned call of p ended as it would have ended alone on the Client,
\* given what the transport answered to it.
SameAsAlone(p) ==
    LET b == RequestAlone(client, p)
        fresh == [supplied |-> call[p].result, fields |-> Empty]
    IN
    IF b.err # NilErr
    THEN ret[p] = b.err /\ sends[p] = 0
    ELSE /\ req[p] = b.req
         /\ \/ ret[p].type = "net" /\ ~Received(p)
            \/ /\ Received(p)
               /\ resp[p].readErr
               /\ ret[p] = ErrTransport(SubSeq(resp[p].Body, 1, 1))
            \/ /\ Received(p)
               /\ ~resp[p].readErr
               /\ ret[p] = decode(resp[p].StatusCode, resp[p].Body, fresh).err
               /\ dest[p] = decode(resp[p].StatusCode, resp[p].Body, fresh).dest

\* C9: no step of a dispatch call changes the Client's configuration, under
\* every interleaving of the callers, and each returned call ended as it
\* would have ended alone.
C9_ConfigurationUnchanged ==
    /\ [][phase' = "serving" => client' = client]_vars
    /\ [](\A p \in Callers : pc[p] = "done" => SameAsAlone(p))

\* Two calls overlap on the one Client: one has returned a provider error
\* while the other is still reading its response.
C9_Witness ==
    \E p, q \in Callers :
        /\ p # q
        /\ pc[p] = "done"
        /\ ret[p].type = "Error"
        /\ pc[q] = "reading"
        /\ DOMAIN client.Endpoints # {}

\* C10 as stated: a request built in multipart mode carries exactly one
\* Content-Type value, the boundary-bearing one of the multipart writer,
\* whatever content type the Description declares.
C10_MultipartContentType ==
    \A p \in Callers :
        (Built(p) /\ call[p].mode = "multipart") =>
            req[p].Header["Content-Type"] = <<FormDataContentType>>

====
